---- MODULE Spec2Model ----
(***************************************************************************)
(* A model of the scanners of SwingScannerWatchlist: scripts/quality_scan, *)
(* scripts/trigger_scan and scripts/backtest_quality.  Each script reads   *)
(* data/combined.csv, annotates it per ticker with indicators, labels      *)
(* patterns, gates and grades them and writes a CSV file.                  *)
(*                                                                         *)
(* The table is a sequence of rows in the order the scripts sort it        *)
(* (Ticker, then Date).  A pandas column is a sequence of the same length; *)
(* a missing value is NaN.  Prices are integers; RSI and win rates are     *)
(* kept as exact fractions, so every comparison the code makes is exact.   *)
(***************************************************************************)
EXTENDS Integers, Sequences, FiniteSets, TLC

(***************************************************************************)
(* Bounds of the model.                                                    *)
(***************************************************************************)
MaxBarsA == 4      \* bars of ticker "A", the first ticker of the sorted table
MaxBarsB == 1      \* bars of ticker "B", whose rows follow A's
MaxMissing == 1    \* columns removed from combined.csv
MaxBatches == 4    \* batches of detected rows in the grading model

(***************************************************************************)
(* Program constants.                                                      *)
(***************************************************************************)
LOOKBACK_DAYS == 180
HORIZON == 10
MIN_SAMPLES == 80
HALF_LIFE == 60
ALPHA_INV == 14      \* ewm(alpha=1/14)
RSI_LOW == 30
RSI_HIGH == 70
WIN3 == 3            \* rolling(3)
MA50_WIN == 50
SWING_WIN == 10

\* np.nan / None: the missing value of a numeric column.  Prices and dates of
\* the model are >= 0 and differences stay far above it.
NaN == -1000000

notna(x) == x # NaN

SetMax(S) == CHOOSE x \in S : \A y \in S : y <= x
SetMin(S) == CHOOSE x \in S : \A y \in S : x <= y

\* Comparisons of pandas: any comparison with NaN is False.
Lt(a, b) == notna(a) /\ notna(b) /\ a < b
Le(a, b) == notna(a) /\ notna(b) /\ a <= b
Gt(a, b) == Lt(b, a)
Ge(a, b) == Le(b, a)
\* Arithmetic of pandas: NaN propagates.
Sub(a, b) == IF notna(a) /\ notna(b) THEN a - b ELSE NaN

RECURSIVE Pow(_, _)
Pow(b, n) == IF n <= 0 THEN 1 ELSE b * Pow(b, n - 1)

(***************************************************************************)
(* pandas primitives on columns.                                           *)
(***************************************************************************)
Col(df, f) == [i \in 1..Len(df) |-> df[i][f]]

\* Series.shift(k): by position, over the whole column; na is the missing
\* value of the column's type.
shiftna(col, k, na) ==
  [i \in 1..Len(col) |-> IF (i - k) \in 1..Len(col) THEN col[i - k] ELSE na]
shift(col, k) == shiftna(col, k, NaN)

\* groupby("Ticker")[col].shift(k): by position within the row's own ticker.
\* (The table is sorted by Ticker, so a ticker's rows are contiguous.)
gshift(df, col, k) ==
  [i \in 1..Len(col) |->
     IF (i - k) \in 1..Len(col) /\ df[i - k].Ticker = df[i].Ticker
     THEN col[i - k] ELSE NaN]

\* Series.rolling(win, min_periods=minp).max() / .min(): over the last win
\* positions, NaN unless at least minp of them are not NaN.
rolling(col, win, minp, fn) ==
  [i \in 1..Len(col) |->
     LET obs == {col[j] : j \in {j \in (i - win + 1)..i : j >= 1 /\ notna(col[j])}}
         cnt == Cardinality({j \in (i - win + 1)..i : j >= 1 /\ notna(col[j])})
     IN IF cnt >= minp /\ cnt > 0
        THEN (IF fn = "max" THEN SetMax(obs) ELSE SetMin(obs))
        ELSE NaN]

\* The rows of the ticker of row i: first and last position.
GroupFirst(df, i) == SetMin({j \in 1..i : df[j].Ticker = df[i].Ticker})
GroupLast(df, i) == SetMax({j \in i..Len(df) : df[j].Ticker = df[i].Ticker})

\* The groups of groupby("Ticker"), each named by its first position, and
\* the sub-series of a column in one group.
Firsts(df) == {GroupFirst(df, i) : i \in 1..Len(df)}
GroupCol(df, col, g) == SubSeq(col, g, GroupLast(df, g))
\* groupby("Ticker")[col].transform(F): res[g] is F on the sub-series of group
\* g; each row takes its value from the result of its own group.
gtransform(df, res) ==
  LET r == res
  IN [i \in 1..Len(df) |-> r[GroupFirst(df, i)][i - GroupFirst(df, i) + 1]]

(***************************************************************************)
(* rsi14 (the three scripts define the same function).  close.diff() is    *)
(* NaN on the first bar, so gain and loss start on the second; ewm(alpha=  *)
(* 1/14, adjust=False).mean() is seeded by that first value:               *)
(*   y[2] = x[2],  y[t] = (13*y[t-1] + x[t]) / 14.                         *)
(* EwmN(x, t) is y[t] * 14^(t-2), an integer.  An RSI value is the pair    *)
(* <<avg gain, avg loss>> of numerators over that common denominator, or   *)
(* <<>> when it is NaN.                                                    *)
(***************************************************************************)
RECURSIVE EwmN(_, _)
EwmN(x, t) ==
  IF t <= 2 THEN x[2]
  ELSE (ALPHA_INV - 1) * EwmN(x, t - 1) + Pow(ALPHA_INV, t - 3) * x[t]

clip_lower0(v) == IF v > 0 THEN v ELSE 0

rsi14(close) ==
  LET gain == [t \in 1..Len(close) |->
                 IF t = 1 THEN 0 ELSE clip_lower0(close[t] - close[t - 1])]
      loss == [t \in 1..Len(close) |->
                 IF t = 1 THEN 0 ELSE clip_lower0(close[t - 1] - close[t])]
  IN [t \in 1..Len(close) |->
        IF t = 1 THEN <<>> ELSE <<EwmN(gain, t), EwmN(loss, t)>>]

\* RSI = 100 - 100/(1 + ag/al), al replaced by 1e-12 when it is 0.
\* RSI <= x  <=>  (100 - x) * ag <= x * al.  With al = 0 the floor 1e-12
\* makes RSI 0 when ag = 0 and above 99.99 otherwise (ag >= 14^-(MaxBars)).
RsiLe(r, x) ==
  /\ r # <<>>
  /\ IF r[2] = 0 THEN r[1] = 0 ELSE (100 - x) * r[1] <= x * r[2]
RsiGe(r, x) ==
  /\ r # <<>>
  /\ IF r[2] = 0 THEN r[1] > 0 ELSE (100 - x) * r[1] >= x * r[2]
RsiGt(r, x) == r # <<>> /\ ~RsiLe(r, x)
RsiLt(r, x) == r # <<>> /\ ~RsiGe(r, x)

(***************************************************************************)
(* scripts/quality_scan.py: context columns and pattern (lines 47-71).     *)
(***************************************************************************)
QS_RSI14(df) ==
  gtransform(df, [g \in Firsts(df) |->
                    rsi14(GroupCol(df, Col(df, "Close"), g))])
QS_PrevOpen(df) == gshift(df, Col(df, "Open"), 1)
QS_PrevClose(df) == gshift(df, Col(df, "Close"), 1)
\* A variant of H3 whose shift runs over the whole column as well.
QS_H3_ungrouped(df) == rolling(shift(Col(df, "High"), 1), WIN3, WIN3, "max")

\* g["High"].shift(1).rolling(3).max(): the shift is per ticker, the rolling
\* window runs over the whole shifted column.
QS_H3(df) == rolling(gshift(df, Col(df, "High"), 1), WIN3, WIN3, "max")
QS_L3(df) == rolling(gshift(df, Col(df, "Low"), 1), WIN3, WIN3, "min")
QS_Close_fut(df) == gshift(df, Col(df, "Close"), 0 - HORIZON)

\* Engulfing, on the columns of one row.
bull(r) ==
  /\ Gt(r.Close, r.Open) /\ Lt(r.PrevClose, r.PrevOpen)
  /\ Ge(r.Close, r.PrevOpen) /\ Le(r.Open, r.PrevClose)
bear(r) ==
  /\ Lt(r.Close, r.Open) /\ Gt(r.PrevClose, r.PrevOpen)
  /\ Le(r.Close, r.PrevOpen) /\ Ge(r.Open, r.PrevClose)

long_q(r) ==
  /\ r.Group = "oversold" /\ RsiLe(r.RSI14, RSI_LOW) /\ bull(r)
  /\ notna(r.L3) /\ Gt(Sub(r.Close, r.L3), 0)
short_q(r) ==
  /\ r.Group = "overbought" /\ RsiGe(r.RSI14, RSI_HIGH) /\ bear(r)
  /\ notna(r.H3) /\ Gt(Sub(r.H3, r.Close), 0)

QS_Pattern(r) ==
  IF long_q(r) THEN "OversoldLongRev"
  ELSE IF short_q(r) THEN "OverboughtShortRev" ELSE ""

\* The frame after line 71: one row per input row, in the sorted order.
QS_Frame(df) ==
  LET RSI == QS_RSI14(df)
      PO == QS_PrevOpen(df)
      PC == QS_PrevClose(df)
      H3 == QS_H3(df)
      L3 == QS_L3(df)
      FUT == QS_Close_fut(df)
  IN [i \in 1..Len(df) |->
        [Date |-> df[i].Date, Ticker |-> df[i].Ticker, Group |-> df[i].Group,
         Open |-> df[i].Open, High |-> df[i].High, Low |-> df[i].Low,
         Close |-> df[i].Close, RSI14 |-> RSI[i], H3 |-> H3[i],
         L3 |-> L3[i], Close_fut |-> FUT[i],
         Pattern |-> QS_Pattern([Group |-> df[i].Group, Open |-> df[i].Open,
                                 Close |-> df[i].Close, RSI14 |-> RSI[i],
                                 PrevOpen |-> PO[i], PrevClose |-> PC[i],
                                 H3 |-> H3[i], L3 |-> L3[i]])]]

(***************************************************************************)
(* scripts/quality_scan.py: the historical sample, the win rates and the   *)
(* grade (lines 57-58, 73-142).  The frame is held as a bag: a function    *)
(* from rows to the number of rows with these values.                      *)
(***************************************************************************)
SeqBag(s) ==
  [r \in {s[i] : i \in DOMAIN s} |-> Cardinality({i \in DOMAIN s : s[i] = r})]

RECURSIVE SumFn(_)
SumFn(g) ==
  IF DOMAIN g = {} THEN 0
  ELSE LET x == CHOOSE x \in DOMAIN g : TRUE
       IN g[x] + SumFn([y \in DOMAIN g \ {x} |-> g[y]])

Restrict(B, S) == [r \in S |-> B[r]]

last_date(B) == SetMax({r.Date : r \in DOMAIN B})
cutoff(B) == last_date(B) - LOOKBACK_DAYS

\* A variant of hist whose window is closed at last_date.
hist_through_last_date(B) ==
  Restrict(B, {r \in DOMAIN B :
                 r.Date >= cutoff(B) /\ r.Date <= last_date(B) /\ r.Pattern # ""})

\* hist = df[(Date >= cutoff) & (Date < last_date) & (Pattern != "")]
hist(B) ==
  Restrict(B, {r \in DOMAIN B :
                 r.Date >= cutoff(B) /\ r.Date < last_date(B) /\ r.Pattern # ""})

\* ret10 = (Close_fut10 - Close) / Close, times -1 for a short; only its sign
\* is read (Close > 0).  win = ret10 > 0, a boolean: False when ret10 is NaN.
ret_sign(r) ==
  LET d == Sub(r.Close_fut, r.Close)
  IN IF r.Pattern = "OversoldLongRev" THEN d
     ELSE (IF notna(d) THEN 0 - d ELSE NaN)
win(r) == Gt(ret_sign(r), 0)
\* hist["win"].notna(): win is a boolean column, so every row is counted.
win_notna(r) == win(r) \in BOOLEAN

\* w = exp(-ln(2)/HALF_LIFE * age_days), age_days = (last_date - Date) clipped
\* at 0.  Dates are multiples of HALF_LIFE, so w * 2^(last/HALF_LIFE) is the
\* integer below; the win rates are ratios and the common factor cancels.
age_days(r, last) == clip_lower0(last - r.Date)
w(r, last) == Pow(2, (last - age_days(r, last)) \div HALF_LIFE)

Samples10(H, p) ==
  SumFn([r \in {r \in DOMAIN H : r.Pattern = p} |->
           H[r] * (IF win_notna(r) THEN 1 ELSE 0)])
\* WinRate10 as <<sum(win*w), sum(w)>>, or <<>> for NaN.
WinRate10(H, last, p) ==
  LET S == {r \in DOMAIN H : r.Pattern = p}
      den == SumFn([r \in S |-> H[r] * w(r, last)])
      num == SumFn([r \in S |-> H[r] * w(r, last) * (IF win(r) THEN 1 ELSE 0)])
  IN IF den > 0 THEN <<num, den>> ELSE <<>>

\* wstats: one record per pattern of hist (empty when hist is empty).
wstats(H, last) ==
  [p \in {r.Pattern : r \in DOMAIN H} |->
     [Samples10 |-> Samples10(H, p), WinRate10 |-> WinRate10(H, last, p)]]

\* global_wr: None (<<>>) unless wstats has a WinRate10 that is not NaN.
global_wr(H, last) ==
  LET ws == wstats(H, last)
      mask == {r \in DOMAIN H : win_notna(r)}
  IN IF DOMAIN ws # {} /\ (\E p \in DOMAIN ws : ws[p].WinRate10 # <<>>) /\ mask # {}
     THEN <<SumFn([r \in mask |-> H[r] * w(r, last) * (IF win(r) THEN 1 ELSE 0)]),
            SumFn([r \in mask |-> H[r] * w(r, last)])>>
     ELSE <<>>

\* grade_from_winrate; p >= t for p = <<num, den>> is 100*num >= t*den.
WIN_THRESH_Aplus == 65
WIN_THRESH_A == 55
WIN_THRESH_Bplus == 50
wr_ge(p, t) == p # <<>> /\ 100 * p[1] >= t * p[2]
grade_from_winrate(p) ==
  IF p = <<>> THEN ""
  ELSE IF wr_ge(p, WIN_THRESH_Aplus) THEN "A+"
  ELSE IF wr_ge(p, WIN_THRESH_A) THEN "A"
  ELSE IF wr_ge(p, WIN_THRESH_Bplus) THEN "B+"
  ELSE ""

\* Prices times 100, for Target = Close +- 1.25 * risk and R_R = 1.25.
CENTS == 100
RR_MULT == 125

\* today = df[(Date == last_date) & (Pattern != "")]
today(B) ==
  Restrict(B, {r \in DOMAIN B : r.Date = last_date(B) /\ r.Pattern # ""})

\* Lines 114-123: side, stop, target and R_R of a row of today.
QS_Stops(r) ==
  LET lng == r.Pattern = "OversoldLongRev"
  IN [Date |-> r.Date, Ticker |-> r.Ticker, Group |-> r.Group,
      Side |-> IF lng THEN "long" ELSE "short",
      Pattern |-> r.Pattern, Open |-> r.Open, High |-> r.High, Low |-> r.Low,
      Close |-> r.Close, RSI14 |-> r.RSI14, H3 |-> r.H3, L3 |-> r.L3,
      Stop |-> IF lng THEN r.L3 ELSE r.H3,
      Target |-> IF lng THEN CENTS * r.Close + RR_MULT * (r.Close - r.L3)
                 ELSE CENTS * r.Close - RR_MULT * (r.H3 - r.Close),
      R_R |-> RR_MULT]

\* Lines 126-131: today.merge(wstats, how="left"), then the fallback.
use_fallback(ws, p) ==
  \/ (IF p \in DOMAIN ws THEN ws[p].Samples10 ELSE 0) < MIN_SAMPLES
  \/ (IF p \in DOMAIN ws THEN ws[p].WinRate10 ELSE <<>>) = <<>>

QS_WinRate10(ws, g, p) ==
  IF g # <<>> /\ use_fallback(ws, p) THEN g
  ELSE IF p \in DOMAIN ws THEN ws[p].WinRate10 ELSE <<>>

QS_Samples10(H, ws, g, p) ==
  IF g # <<>> /\ use_fallback(ws, p)
  THEN SumFn([r \in {r \in DOMAIN H : win_notna(r)} |-> H[r]])
  ELSE IF p \in DOMAIN ws THEN ws[p].Samples10 ELSE NaN

\* Line 133.
QS_Grade(wr) == grade_from_winrate(wr)

\* The rows written (line 138 sorts them; the order is not modelled).
QS_OutRow(H, ws, g, r) ==
  LET s == QS_Stops(r)
      wr == QS_WinRate10(ws, g, r.Pattern)
  IN [Date |-> s.Date, Ticker |-> s.Ticker, Group |-> s.Group, Side |-> s.Side,
      Pattern |-> s.Pattern, Open |-> s.Open, High |-> s.High, Low |-> s.Low,
      Close |-> s.Close, RSI14 |-> s.RSI14, H3 |-> s.H3, L3 |-> s.L3,
      Stop |-> s.Stop, Target |-> s.Target, R_R |-> s.R_R,
      WinRate10 |-> wr, Samples10 |-> QS_Samples10(H, ws, g, r.Pattern),
      Grade |-> QS_Grade(wr)]

\* out: the rows of today as written, with their multiplicities.
QS_out(H, ws, g, T) ==
  [o \in {QS_OutRow(H, ws, g, r) : r \in DOMAIN T} |->
     SumFn([r \in {r \in DOMAIN T : QS_OutRow(H, ws, g, r) = o} |-> T[r]])]

EmptyBag == [r \in {} |-> 0]

\* The columns fetch_data writes to combined.csv, in order.
AllCols ==
  <<"Date", "Ticker", "Group", "Open", "High", "Low", "Close", "Adj Close", "Volume">>
Has(columns, c) == \E i \in DOMAIN columns : columns[i] = c

QS_cols ==
  <<"Date", "Ticker", "Group", "Side", "Pattern", "Open", "High", "Low", "Close",
    "RSI14", "H3", "L3", "Stop", "Target", "R_R", "WinRate10", "Samples10", "Grade">>
\* The columns of df after line 71: those read, then those added.
QS_df_columns(columns) ==
  columns \o <<"RSI14", "PrevOpen", "PrevClose", "H3", "L3", "Close_fut10", "Pattern">>

QS_OUT == "data/quality_today.csv"

\* Lines 57-142 on the frame B with its patterns: the result of the run and
\* the locals the claims read.
QS_grade(B, columns) ==
  LET last == last_date(B)
      H == hist(B)
      T == today(B)
      ws == wstats(H, last)
      g == global_wr(H, last)
      loc == [frame |-> <<>>, hist |-> H, wstats |-> ws,
              global_wr |-> g, last_date |-> last, today |-> T]
  IN IF DOMAIN T = {}
     THEN [exit |-> "ok",
           files |-> {[path |-> QS_OUT, header |-> QS_df_columns(columns),
                       rows |-> EmptyBag]},
           loc |-> loc]
     ELSE [exit |-> "ok",
           files |-> {[path |-> QS_OUT, header |-> QS_cols, rows |-> QS_out(H, ws, g, T)]},
           loc |-> loc]

\* The locals of a run that ended before it built any.
NoLoc ==
  [frame |-> <<>>, hist |-> EmptyBag, wstats |-> <<>>, global_wr |-> <<>>,
   last_date |-> NaN, today |-> EmptyBag]
WithFrame(res, fr) == [res EXCEPT !.loc.frame = fr]
Failure == [exit |-> "error", files |-> {}, loc |-> NoLoc]

\* main, lines 39-142.
QS_main(exists, columns, df) ==
  IF ~exists \/ ~Has(columns, "Date") \/ ~Has(columns, "Ticker")
  THEN Failure                      \* read_csv or sort_values raises
  ELSE IF Len(df) = 0
  THEN [exit |-> "ok",
        files |-> {[path |-> QS_OUT, header |-> <<>>, rows |-> EmptyBag]},
        loc |-> NoLoc]
  ELSE IF \E c \in {"Close", "Open", "High", "Low", "Group"} : ~Has(columns, c)
  THEN Failure                      \* KeyError before anything is written
  ELSE LET fr == QS_Frame(df)
       IN WithFrame(QS_grade(SeqBag(fr), columns), fr)

(***************************************************************************)
(* scripts/trigger_scan.py                                                 *)
(***************************************************************************)
\* A variant of the H3 window shifted the other way (as fwd_roll_max does).
next3_max(s) == rolling(shift(s, 0 - 1), WIN3, WIN3, "max")

\* lambda s: s.shift(1).rolling(3).max() / .min(), on one ticker's series.
prev3_max(s) == rolling(shift(s, 1), WIN3, WIN3, "max")
prev3_min(s) == rolling(shift(s, 1), WIN3, WIN3, "min")

TS_RSI14(df) ==
  gtransform(df, [g \in Firsts(df) |->
                    rsi14(GroupCol(df, Col(df, "Close"), g))])
TS_H3(df) ==
  gtransform(df, [g \in Firsts(df) |->
                    prev3_max(GroupCol(df, Col(df, "High"), g))])
TS_L3(df) ==
  gtransform(df, [g \in Firsts(df) |->
                    prev3_min(GroupCol(df, Col(df, "Low"), g))])
\* df["RSI14"].shift(1): over the whole column, not per ticker.
TS_RSI14_prev(rsi) == shiftna(rsi, 1, <<>>)

\* The labels of a row, in the order lines 50-55 append them; the Trigger
\* column is their "|".join, "" for none.
TS_labels(r) ==
  LET lr == r.Group = "oversold" /\ RsiLe(r.RSI14_prev, RSI_LOW) /\ RsiGt(r.RSI14, RSI_LOW)
      sr == r.Group = "overbought" /\ RsiGe(r.RSI14_prev, RSI_HIGH) /\ RsiLt(r.RSI14, RSI_HIGH)
      lb == r.Group = "oversold" /\ Gt(r.Close, r.H3)
      sd == r.Group = "overbought" /\ Lt(r.Close, r.L3)
      lc == r.Group = "oversold" /\ bull(r)
      sc == r.Group = "overbought" /\ bear(r)
  IN (IF lr THEN <<"LONG_RSI_CROSS">> ELSE <<>>)
     \o (IF lb THEN <<"LONG_3DAY_BREAKOUT">> ELSE <<>>)
     \o (IF lc THEN <<"LONG_ENGULF">> ELSE <<>>)
     \o (IF sr THEN <<"SHORT_RSI_CROSS">> ELSE <<>>)
     \o (IF sd THEN <<"SHORT_3DAY_BREAKDOWN">> ELSE <<>>)
     \o (IF sc THEN <<"SHORT_ENGULF">> ELSE <<>>)

\* str.contains("LONG_") / str.contains("SHORT_") on the joined labels.
contains_LONG(t) ==
  \E i \in DOMAIN t : t[i] \in {"LONG_RSI_CROSS", "LONG_3DAY_BREAKOUT", "LONG_ENGULF"}
contains_SHORT(t) ==
  \E i \in DOMAIN t : t[i] \in {"SHORT_RSI_CROSS", "SHORT_3DAY_BREAKDOWN", "SHORT_ENGULF"}
\* A variant of Side without line 62.
TS_Side_long_only(t) ==
  IF contains_LONG(t) /\ contains_SHORT(t) THEN "both"
  ELSE IF contains_LONG(t) THEN "long" ELSE ""

TS_Side(t) ==
  IF contains_LONG(t) /\ contains_SHORT(t) THEN "both"
  ELSE IF contains_SHORT(t) THEN "short"
  ELSE IF contains_LONG(t) THEN "long" ELSE ""

\* df at line 63: every row with its indicators, Trigger and Side.
TS_Frame(df) ==
  LET RSI == TS_RSI14(df)
      RSIP == TS_RSI14_prev(RSI)
      H3 == TS_H3(df)
      L3 == TS_L3(df)
      PO == gshift(df, Col(df, "Open"), 1)
      PC == gshift(df, Col(df, "Close"), 1)
  IN [i \in 1..Len(df) |->
        LET t == TS_labels([Group |-> df[i].Group, Open |-> df[i].Open,
                            Close |-> df[i].Close, RSI14 |-> RSI[i],
                            RSI14_prev |-> RSIP[i], H3 |-> H3[i], L3 |-> L3[i],
                            PrevOpen |-> PO[i], PrevClose |-> PC[i]])
        IN [Date |-> df[i].Date, Ticker |-> df[i].Ticker, Group |-> df[i].Group,
            Side |-> TS_Side(t), Trigger |-> t,
            Open |-> df[i].Open, High |-> df[i].High, Low |-> df[i].Low,
            Close |-> df[i].Close, RSI14 |-> RSI[i], H3 |-> H3[i], L3 |-> L3[i]]]

TS_cols ==
  <<"Date", "Ticker", "Group", "Side", "Trigger", "Open", "High", "Low", "Close",
    "RSI14", "H3", "L3">>
TS_OUT == "data/signals.csv"

\* compute_triggers: the rows with a trigger.
compute_triggers(fr) == SeqBag(SelectSeq(fr, LAMBDA r : r.Trigger # <<>>))

\* main, lines 70-75.  The results the run may end with: on a table without
\* rows the Trigger column is built from an empty list and its dtype, hence
\* whether .str raises, depends on the pandas release.
TS_main(exists, columns, df) ==
  IF ~exists \/ (\E c \in {"Date", "Ticker", "Close", "High", "Low", "Open", "Group"} :
                   ~Has(columns, c))
  THEN {Failure}
  ELSE LET fr == TS_Frame(df)
           done == [exit |-> "ok",
                    files |-> {[path |-> TS_OUT, header |-> TS_cols,
                                rows |-> compute_triggers(fr)]},
                    loc |-> [NoLoc EXCEPT !.frame = fr]]
       IN IF Len(df) = 0 THEN {done, Failure} ELSE {done}

(***************************************************************************)
(* scripts/backtest_quality.py                                             *)
(***************************************************************************)
\* rolling_prev_extrema(x, win, fn): x.shift(1).rolling(win, min_periods=1).
rolling_prev_extrema(x, n, fn) == rolling(shift(x, 1), n, 1, fn)
prev_extrema3_max(s) == rolling_prev_extrema(s, WIN3, "max")
prev_extrema3_min(s) == rolling_prev_extrema(s, WIN3, "min")

\* s.rolling(n).mean(), kept as the window's sum (the mean times n): NaN
\* until n values are in the window.
rolling_sum(col, n) ==
  [i \in 1..Len(col) |->
     IF i >= n /\ (\A j \in (i - n + 1)..i : notna(col[j]))
     THEN SumFn([j \in (i - n + 1)..i |-> col[j]]) ELSE NaN]
ma50_sum(s) == rolling_sum(s, MA50_WIN)
MA200_WIN == 200
ma200_sum(s) == rolling_sum(s, MA200_WIN)

\* engulfing_flags(df): prev_open and prev_close are df[..].shift(1), over
\* the whole table.
BT_prev_open(df) == shift(Col(df, "Open"), 1)
BT_prev_close(df) == shift(Col(df, "Close"), 1)
engulfing_flags(df) ==
  LET PO == BT_prev_open(df)
      PC == BT_prev_close(df)
      row(i) == [Open |-> df[i].Open, Close |-> df[i].Close,
                 PrevOpen |-> PO[i], PrevClose |-> PC[i]]
  IN [i \in 1..Len(df) |-> [bull |-> bull(row(i)), bear |-> bear(row(i))]]

BT_H3(df) ==
  gtransform(df, [g \in Firsts(df) |->
                    prev_extrema3_max(GroupCol(df, Col(df, "High"), g))])
BT_L3(df) ==
  gtransform(df, [g \in Firsts(df) |->
                    prev_extrema3_min(GroupCol(df, Col(df, "Low"), g))])

\* fwd_roll_max / fwd_roll_min with n = 10, on one ticker's series.
fwd_roll_max(x) == rolling(shift(x, 0 - 1), SWING_WIN, 1, "max")
fwd_roll_min(x) == rolling(shift(x, 0 - 1), SWING_WIN, 1, "min")
BT_FwdHigh_10(df) ==
  gtransform(df, [g \in Firsts(df) |->
                    fwd_roll_max(GroupCol(df, Col(df, "High"), g))])
BT_FwdLow_10(df) ==
  gtransform(df, [g \in Firsts(df) |->
                    fwd_roll_min(GroupCol(df, Col(df, "Low"), g))])

\* swing context
swing_max(s) == rolling(shift(s, 1), SWING_WIN, 1, "max")
swing_min(s) == rolling(shift(s, 1), SWING_WIN, 1, "min")

\* percent_retrace(close, LH10, LL10) <= 0.38.  span = LH10 - LL10 with 0
\* replaced by NaN; pct = (LH10 - close) / span clipped to [0, 1], NaN -> 0.
RETRACE_MAX == 38
retrace_le(close, lh, ll) ==
  LET span == IF Sub(lh, ll) = 0 THEN NaN ELSE Sub(lh, ll)
  IN IF ~notna(span) THEN TRUE
     ELSE IF span > 0 THEN 100 * (lh - close) <= RETRACE_MAX * span
     ELSE 100 * (lh - close) >= RETRACE_MAX * span

\* The quality gate of one row (lines 90-96).
rev_long(r) ==
  r.Group = "oversold" /\ RsiLe(r.RSI14, RSI_LOW) /\ r.BullEngulf /\ notna(r.L3)
rev_short(r) ==
  r.Group = "overbought" /\ RsiGe(r.RSI14, RSI_HIGH) /\ r.BearEngulf /\ notna(r.H3)
cont_long(r) ==
  /\ Gt(MA50_WIN * r.Close, r.MA50)
  /\ RsiGe(r.RSI14, 40) /\ RsiLe(r.RSI14, 65)
  /\ (retrace_le(r.Close, r.LH10, r.LL10) \/ Gt(r.Close, r.LH10))
  /\ (r.BullEngulf \/ Gt(r.Close, r.LH10))
  /\ notna(r.L3)
cont_short(r) ==
  /\ Lt(MA50_WIN * r.Close, r.MA50)
  /\ RsiGe(r.RSI14, 35) /\ RsiLe(r.RSI14, 60)
  /\ (retrace_le(r.Close, r.LH10, r.LL10) \/ Lt(r.Close, r.LL10))
  /\ (r.BearEngulf \/ Lt(r.Close, r.LL10))
  /\ notna(r.H3)

\* np.select: the first condition that holds.
BT_Setup(r) ==
  IF rev_long(r) THEN "ReversalLong"
  ELSE IF rev_short(r) THEN "ReversalShort"
  ELSE IF cont_long(r) THEN "ContLong"
  ELSE IF cont_short(r) THEN "ContShort" ELSE ""

\* Setup.map({...}): NaN ("") for a row without setup.
BT_Side(setup) ==
  IF setup \in {"ReversalLong", "ContLong"} THEN "long"
  ELSE IF setup \in {"ReversalShort", "ContShort"} THEN "short" ELSE ""

\* Lines 108-111.
BT_Stop(r) == IF r.Side = "long" THEN r.L3 ELSE r.H3
BT_Risk(r) ==
  IF r.Side = "long" THEN Sub(r.Close, BT_Stop(r)) ELSE Sub(BT_Stop(r), r.Close)
BT_Target(r) ==
  IF ~notna(BT_Risk(r)) THEN NaN
  ELSE IF r.Side = "long" THEN CENTS * r.Close + RR_MULT * BT_Risk(r)
  ELSE CENTS * r.Close - RR_MULT * BT_Risk(r)
BT_R_R(r) == IF Gt(BT_Risk(r), 0) THEN RR_MULT ELSE NaN
\* A variant of line 113 without the tests on Risk and R_R.
BT_qual_any_risk(r) == r.Setup # ""

\* Line 113.
BT_qual(r) == r.Setup # "" /\ Gt(BT_Risk(r), 0) /\ Ge(BT_R_R(r), RR_MULT)

\* df at line 111: every row with its features, setup, stop and risk.
BT_Frame(df) ==
  LET close == Col(df, "Close")
      RSI == gtransform(df, [g \in Firsts(df) |-> rsi14(GroupCol(df, close, g))])
      MA50 == gtransform(df, [g \in Firsts(df) |-> ma50_sum(GroupCol(df, close, g))])
      MA200 == gtransform(df, [g \in Firsts(df) |-> ma200_sum(GroupCol(df, close, g))])
      E == engulfing_flags(df)
      H3 == BT_H3(df)
      L3 == BT_L3(df)
      F5 == gshift(df, close, 0 - 5)
      F10 == gshift(df, close, 0 - 10)
      F15 == gshift(df, close, 0 - 15)
      FH == BT_FwdHigh_10(df)
      FL == BT_FwdLow_10(df)
      LH10 == gtransform(df, [g \in Firsts(df) |-> swing_max(GroupCol(df, Col(df, "High"), g))])
      LL10 == gtransform(df, [g \in Firsts(df) |-> swing_min(GroupCol(df, Col(df, "Low"), g))])
  IN [i \in 1..Len(df) |->
        LET setup == BT_Setup([Group |-> df[i].Group, Close |-> df[i].Close,
                               RSI14 |-> RSI[i], MA50 |-> MA50[i],
                               BullEngulf |-> E[i].bull, BearEngulf |-> E[i].bear,
                               H3 |-> H3[i], L3 |-> L3[i],
                               LH10 |-> LH10[i], LL10 |-> LL10[i]])
            row == [Side |-> BT_Side(setup), Close |-> df[i].Close,
                    H3 |-> H3[i], L3 |-> L3[i], Setup |-> setup]
        IN [Date |-> df[i].Date, Ticker |-> df[i].Ticker, Group |-> df[i].Group,
            Setup |-> setup, Side |-> row.Side,
            Open |-> df[i].Open, High |-> df[i].High, Low |-> df[i].Low,
            Close |-> df[i].Close, RSI14 |-> RSI[i], MA50 |-> MA50[i],
            MA200 |-> MA200[i], BullEngulf |-> E[i].bull, BearEngulf |-> E[i].bear,
            H3 |-> H3[i], L3 |-> L3[i],
            Stop |-> BT_Stop(row), Risk |-> BT_Risk(row),
            Target |-> BT_Target(row), R_R |-> BT_R_R(row),
            Close_fut5 |-> F5[i], Close_fut10 |-> F10[i], Close_fut15 |-> F15[i],
            FwdHigh_10 |-> FH[i], FwdLow_10 |-> FL[i],
            qual |-> BT_qual(row)]]

\* Lines 116-125: ret_d = (Close_fut_d - Close) / Close, negated for a short,
\* as <<numerator, Close>> (<<>> for NaN); win_d = ret_d > 0; the hits.
BT_ret(r, fut) ==
  IF ~notna(fut) THEN <<>>
  ELSE IF r.Side = "short" THEN <<r.Close - fut, r.Close>> ELSE <<fut - r.Close, r.Close>>
BT_win(r, fut) == BT_ret(r, fut) # <<>> /\ BT_ret(r, fut)[1] > 0
tgt_hit10(r) ==
  IF r.Side = "long"
  THEN notna(r.FwdHigh_10) /\ notna(r.Target) /\ CENTS * r.FwdHigh_10 >= r.Target
  ELSE notna(r.FwdLow_10) /\ notna(r.Target) /\ CENTS * r.FwdLow_10 <= r.Target
stp_hit10(r) ==
  IF r.Side = "long" THEN Le(r.FwdLow_10, r.Stop) ELSE Ge(r.FwdHigh_10, r.Stop)

BT_keep ==
  <<"Date", "Ticker", "Group", "Setup", "Side", "Open", "High", "Low", "Close",
    "RSI14", "MA50", "MA200", "H3", "L3", "Stop", "Target", "R_R",
    "ret5", "ret10", "ret15", "win5", "win10", "win15", "tgt_hit10", "stp_hit10">>
BT_TradeRow(r) ==
  [Date |-> r.Date, Ticker |-> r.Ticker, Group |-> r.Group, Setup |-> r.Setup,
   Side |-> r.Side, Open |-> r.Open, High |-> r.High, Low |-> r.Low,
   Close |-> r.Close, RSI14 |-> r.RSI14, MA50 |-> r.MA50, MA200 |-> r.MA200,
   H3 |-> r.H3, L3 |-> r.L3, Stop |-> r.Stop, Target |-> r.Target, R_R |-> r.R_R,
   ret5 |-> BT_ret(r, r.Close_fut5), ret10 |-> BT_ret(r, r.Close_fut10),
   ret15 |-> BT_ret(r, r.Close_fut15),
   win5 |-> BT_win(r, r.Close_fut5), win10 |-> BT_win(r, r.Close_fut10),
   win15 |-> BT_win(r, r.Close_fut15),
   tgt_hit10 |-> tgt_hit10(r), stp_hit10 |-> stp_hit10(r)]

BT_OUT_TRADES == "data/quality_trades.csv"
BT_OUT_STATS == "data/quality_stats.csv"

\* quality_trades.csv: the rows that pass line 113.
BT_trades(fr) ==
  LET q == SelectSeq(fr, LAMBDA r : r.qual)
  IN SeqBag([i \in 1..Len(q) |-> BT_TradeRow(q[i])])

\* quality_stats.csv (lines 134-147): per (Setup, Side) and horizon, the
\* counts behind n, pos_rate, tgt_hit10 and stp_hit10.  avg and median of
\* the returns are not modelled.
BT_stats(T) ==
  LET keys == {<<t.Setup, t.Side>> : t \in DOMAIN T}
      sub(k) == {t \in DOMAIN T : <<t.Setup, t.Side>> = k}
      ret(t, d) == IF d = 5 THEN t.ret5 ELSE IF d = 10 THEN t.ret10 ELSE t.ret15
  IN [o \in {[Setup |-> k[1], Side |-> k[2], horizon |-> d,
              n |-> Cardinality({t \in sub(k) : ret(t, d) # <<>>}),
              pos |-> Cardinality({t \in sub(k) : ret(t, d) # <<>> /\ ret(t, d)[1] > 0}),
              len |-> Cardinality(sub(k)),
              tgt_hit10 |-> Cardinality({t \in sub(k) : t.tgt_hit10}),
              stp_hit10 |-> Cardinality({t \in sub(k) : t.stp_hit10})]
             : k \in keys, d \in {5, 10, 15}} |-> 1]
BT_stats_cols ==
  <<"Setup", "Side", "horizon", "n", "avg", "median", "pos_rate", "tgt_hit10", "stp_hit10">>

\* pd.DataFrame().to_csv: a file with neither header nor rows.
EmptyFile(p) == [path |-> p, header |-> <<>>, rows |-> EmptyBag]

\* The script, lines 42-150.  SystemExit(message) ends the run with a
\* non-zero status.
BT_main(exists, columns, df) ==
  LET empties == {EmptyFile(BT_OUT_TRADES), EmptyFile(BT_OUT_STATS)}
  IN IF ~exists
     THEN [exit |-> "error", files |-> empties, loc |-> NoLoc]
     ELSE IF ~Has(columns, "Date") \/ ~Has(columns, "Ticker")
     THEN Failure                  \* read_csv or sort_values raises, line 49
     ELSE IF \E c \in {"Group", "Open", "High", "Low", "Close"} : ~Has(columns, c)
     THEN [exit |-> "error", files |-> empties, loc |-> NoLoc]
     ELSE IF Len(df) = 0
     THEN [exit |-> "error", files |-> empties, loc |-> NoLoc]
     ELSE LET fr == BT_Frame(df)
              T == BT_trades(fr)
          IN [exit |-> "ok",
              files |-> {[path |-> BT_OUT_TRADES, header |-> BT_keep, rows |-> T],
                         [path |-> BT_OUT_STATS,
                          header |-> IF DOMAIN T = {} THEN <<>> ELSE BT_stats_cols,
                          rows |-> BT_stats(T)]},
              loc |-> [NoLoc EXCEPT !.frame = fr]]

(***************************************************************************)
(* The state machine.  combined.csv is built bar by bar (what fetch_data   *)
(* left on disk), then one of the scripts runs on it.                      *)
(***************************************************************************)
VARIABLES
  src_exists,   \* data/combined.csv exists
  columns,      \* its header
  df,           \* its rows, sorted by (Ticker, Date)
  detected,     \* grading model: the frame after line 71, as a bag
  nbatch,       \* grading model: batches of rows added
  pc,           \* "input", "detected" (grading model) or "done"
  script,       \* the script that ran
  exit,         \* "ok" or "error" once it ended
  out,          \* the files it wrote: records [path, header, rows]
  loc           \* its locals when it ended

vars == <<src_exists, columns, df, detected, nbatch, pc, script, exit, out, loc>>

Tickers == {"A", "B"}
Groups == {"oversold", "overbought"}
MaxBars(t) == IF t = "A" THEN MaxBarsA ELSE MaxBarsB

\* The bars of the model: up, down and flat candles on two price levels; the
\* down candle has its Low above its Close and one up candle its High below
\* its Close (the scripts take the file's numbers as they are).
BarShapes ==
  { [Open |-> 1, High |-> 2, Low |-> 1, Close |-> 2],
    [Open |-> 1, High |-> 1, Low |-> 1, Close |-> 1],
    [Open |-> 2, High |-> 2, Low |-> 2, Close |-> 2],
    [Open |-> 2, High |-> 2, Low |-> 2, Close |-> 1],
    [Open |-> 1, High |-> 1, Low |-> 1, Close |-> 2] }

RowsOf(d, t) == SelectSeq(d, LAMBDA r : r.Ticker = t)

Init ==
  /\ src_exists = TRUE
  /\ columns = AllCols
  /\ df = <<>>
  /\ detected = EmptyBag
  /\ nbatch = 0
  /\ pc = "input"
  /\ script = ""
  /\ exit = ""
  /\ out = {}
  /\ loc = NoLoc

\* One more bar of ticker t in combined.csv; bars are HALF_LIFE days apart
\* and a ticker's rows carry the Group of the list it was fetched for.
AppendBar(t, b, g) ==
  /\ pc = "input" /\ src_exists /\ columns = AllCols
  /\ Len(RowsOf(df, t)) < MaxBars(t)
  /\ LET mine == RowsOf(df, t)
         row == [Ticker |-> t, Date |-> HALF_LIFE * (Len(mine) + 1),
                 Group |-> IF Len(mine) > 0 THEN mine[1].Group ELSE g,
                 Open |-> b.Open, High |-> b.High, Low |-> b.Low, Close |-> b.Close]
     IN df' = IF t = "A" THEN Append(RowsOf(df, "A"), row) \o RowsOf(df, "B")
              ELSE RowsOf(df, "A") \o Append(RowsOf(df, "B"), row)
  /\ (Len(RowsOf(df, t)) > 0 => g = RowsOf(df, t)[1].Group)
  /\ UNCHANGED <<src_exists, columns, detected, nbatch, pc, script, exit, out, loc>>

\* combined.csv lacks a column.
DropColumn(c) ==
  /\ pc = "input" /\ src_exists /\ Len(df) <= 1
  /\ Len(AllCols) - Len(columns) < MaxMissing
  /\ Has(columns, c)
  /\ columns' = SelectSeq(columns, LAMBDA x : x # c)
  /\ UNCHANGED <<src_exists, df, detected, nbatch, pc, script, exit, out, loc>>

\* combined.csv was never written.
RemoveFile ==
  /\ pc = "input" /\ src_exists /\ Len(df) = 0 /\ columns = AllCols
  /\ src_exists' = FALSE
  /\ UNCHANGED <<columns, df, detected, nbatch, pc, script, exit, out, loc>>

Finish(name, res) ==
  /\ pc' = "done"
  /\ script' = name
  /\ exit' = res.exit
  /\ out' = res.files
  /\ loc' = res.loc
  /\ UNCHANGED <<src_exists, columns, df, detected, nbatch>>

QualityScan ==
  /\ pc = "input"
  /\ \E res \in {QS_main(src_exists, columns, df)} : Finish("quality_scan", res)
TriggerScan ==
  /\ pc = "input"
  /\ \E res \in TS_main(src_exists, columns, df) : Finish("trigger_scan", res)
BacktestQuality ==
  /\ pc = "input"
  /\ \E res \in {BT_main(src_exists, columns, df)} : Finish("backtest_quality", res)

Next ==
  \/ \E t \in Tickers, b \in BarShapes, g \in Groups : AppendBar(t, b, g)
  \/ \E c \in {AllCols[i] : i \in DOMAIN AllCols} : DropColumn(c)
  \/ RemoveFile
  \/ QualityScan
  \/ TriggerScan
  \/ BacktestQuality

Spec == Init /\ [][Next]_vars

(***************************************************************************)
(* The grading model: quality_scan from line 57 on, run on frames whose    *)
(* rows are given with their Pattern and Close_fut10 already computed, so  *)
(* that samples in the hundreds and bars with a close HORIZON bars later   *)
(* are within reach.  Rows are added in batches of equal rows (rows of     *)
(* different tickers with the same values; the grading never reads Ticker).*)
(***************************************************************************)
GradeLastDate == 4 * HALF_LIFE
\* The dates of historical rows: the cutoff itself and a later day; and a
\* day before the cutoff.
GradeHistDates == {GradeLastDate - LOOKBACK_DAYS, 3 * HALF_LIFE}
GradeOldDate == 0 * HALF_LIFE
\* Close is 2; the close HORIZON bars later is missing, lower or higher.
GradeFuts == {NaN, 1, 3}

GradeRow(d, p, f) ==
  IF p = "OversoldLongRev"
  THEN [Date |-> d, Ticker |-> "*", Group |-> "oversold", Open |-> 1, High |-> 2,
        Low |-> 1, Close |-> 2, RSI14 |-> <<14, 169>>, H3 |-> 2, L3 |-> 1,
        Close_fut |-> f, Pattern |-> p]
  ELSE IF p = "OverboughtShortRev"
  THEN [Date |-> d, Ticker |-> "*", Group |-> "overbought", Open |-> 3, High |-> 3,
        Low |-> 2, Close |-> 2, RSI14 |-> <<169, 14>>, H3 |-> 3, L3 |-> 1,
        Close_fut |-> f, Pattern |-> p]
  ELSE [Date |-> d, Ticker |-> "*", Group |-> "oversold", Open |-> 2, High |-> 2,
        Low |-> 2, Close |-> 2, RSI14 |-> <<0, 0>>, H3 |-> 2, L3 |-> 2,
        Close_fut |-> f, Pattern |-> p]

Patterns == {"OversoldLongRev", "OverboughtShortRev"}
\* A row of the last date is the last bar of its ticker: no later close.
GradeKinds ==
  {GradeRow(GradeLastDate, p, NaN) : p \in Patterns \cup {""}}
  \cup {GradeRow(d, p, f) : d \in GradeHistDates, p \in Patterns, f \in GradeFuts}
  \cup {GradeRow(3 * HALF_LIFE, "", 3), GradeRow(GradeOldDate, "OversoldLongRev", 3)}
BatchSizes == {1, MIN_SAMPLES}

InitGrade ==
  /\ src_exists = TRUE
  /\ columns = AllCols
  /\ df = <<>>
  /\ detected = EmptyBag
  /\ nbatch = 0
  /\ pc = "detected"
  /\ script = ""
  /\ exit = ""
  /\ out = {}
  /\ loc = NoLoc

BagAdd(B, k, n) ==
  [r \in DOMAIN B \cup {k} |-> (IF r \in DOMAIN B THEN B[r] ELSE 0) + (IF r = k THEN n ELSE 0)]

AddBatch(k, n) ==
  /\ pc = "detected" /\ nbatch < MaxBatches
  /\ detected' = BagAdd(detected, k, n)
  /\ nbatch' = nbatch + 1
  /\ UNCHANGED <<src_exists, columns, df, pc, script, exit, out, loc>>

\* quality_scan on the frame; the frame has a row of the evaluation date.
GradeRun ==
  /\ pc = "detected"
  /\ \E r \in DOMAIN detected : r.Date = GradeLastDate
  /\ \E res \in {QS_grade(detected, columns)} : Finish("quality_scan", res)

NextGrade ==
  \/ \E k \in GradeKinds, n \in BatchSizes : AddBatch(k, n)
  \/ GradeRun

SpecGrade == InitGrade /\ [][NextGrade]_vars

(***************************************************************************)
(* Properties of the grading (checked under SpecGrade).                    *)
(***************************************************************************)
\* The rows of a sample whose close HORIZON bars later exists.
WithOutcome(H) == Restrict(H, {r \in DOMAIN H : notna(r.Close_fut)})
\* The number of rows of pattern p in a sample.
RowsOfPattern(H, p) == SumFn([r \in {r \in DOMAIN H : r.Pattern = p} |-> H[r]])
\* The recency-weighted share of wins over all rows of a sample.
RateOver(H, last) ==
  IF DOMAIN H = {} THEN <<>>
  ELSE <<SumFn([r \in DOMAIN H |-> H[r] * w(r, last) * (IF win(r) THEN 1 ELSE 0)]),
         SumFn([r \in DOMAIN H |-> H[r] * w(r, last)])>>
\* Equality of two rates <<num, den>>, <<>> being the undefined rate.
SameRate(a, b) ==
  IF a = <<>> \/ b = <<>> THEN a = b ELSE a[1] * b[2] = b[1] * a[2]

Graded == pc = "done" /\ script = "quality_scan" /\ exit = "ok"
OutRows == UNION {DOMAIN f.rows : f \in out}

\* C2: in quality_scan a historical candidate whose Close_fut10 is null is
\* left out of the sample: Samples10 of each pattern counts only the rows
\* with a forward close, and the pattern's WinRate10 and the global win rate
\* are the rates over those rows only.
C2_NullOutcomeExcluded ==
  Graded =>
    LET V == WithOutcome(loc.hist)
    IN /\ \A p \in DOMAIN loc.wstats :
            /\ loc.wstats[p].Samples10 = RowsOfPattern(V, p)
            /\ SameRate(loc.wstats[p].WinRate10, WinRate10(V, loc.last_date, p))
       /\ SameRate(loc.global_wr, RateOver(V, loc.last_date))

\* C3: every row quality_scan writes carries Grade A+, A or B+.
C3_EveryRowGraded ==
  Graded => \A o \in OutRows : o.Grade \in {"A+", "A", "B+"}

\* C5: for every candidate of the evaluation date, WinRate10 is the global
\* win rate over all historical samples when its pattern has fewer than
\* MIN_SAMPLES samples (none included), and its own pattern's weighted win
\* rate otherwise; the samples being the historical rows with a forward
\* close (C2).
C5_FallbackBelowMinSamples ==
  Graded =>
    LET V == WithOutcome(loc.hist)
    IN \A o \in OutRows :
         IF RowsOfPattern(V, o.Pattern) < MIN_SAMPLES
         THEN SameRate(o.WinRate10, RateOver(V, loc.last_date))
         ELSE SameRate(o.WinRate10, WinRate10(V, loc.last_date, o.Pattern))

\* C5 on the samples in which every row has its forward close: there the
\* fallback is as stated, so C5 fails through the counting of C2 alone.
FallbackOnSamplesWithOutcome ==
  (Graded /\ WithOutcome(loc.hist) = loc.hist) => C5_FallbackBelowMinSamples
FallbackOnSamplesWithOutcomeReached ==
  /\ Graded /\ WithOutcome(loc.hist) = loc.hist
  /\ \E o \in OutRows : RowsOfPattern(loc.hist, o.Pattern) >= MIN_SAMPLES
  /\ \E o \in OutRows :
       /\ RowsOfPattern(loc.hist, o.Pattern) \in 1..(MIN_SAMPLES - 1)
       /\ ~SameRate(o.WinRate10, WinRate10(loc.hist, loc.last_date, o.Pattern))

\* C6: every row of the historical sample of quality_scan has a date d with
\* last_date - LOOKBACK_DAYS <= d < last_date; no row of the evaluation date
\* is in the sample.
C6_SampleWindow ==
  Graded =>
    \A r \in DOMAIN loc.hist :
      /\ GradeLastDate - LOOKBACK_DAYS <= r.Date
      /\ r.Date < GradeLastDate
\* A run whose frame has a pattern row before the cutoff, one at the cutoff
\* (which is in the sample) and a candidate of the evaluation date.
C6_Witness ==
  /\ Graded
  /\ \E r \in DOMAIN loc.hist : r.Date = GradeLastDate - LOOKBACK_DAYS
  /\ \E r \in DOMAIN detected : r.Date < GradeLastDate - LOOKBACK_DAYS /\ r.Pattern # ""
  /\ \E r \in DOMAIN detected : r.Date = GradeLastDate /\ r.Pattern # ""
  /\ OutRows # {}

(***************************************************************************)
(* Properties of the scripts on a table (checked under Spec).              *)
(***************************************************************************)
FrameOf(s, d) ==
  IF s = "quality_scan" THEN QS_Frame(d)
  ELSE IF s = "trigger_scan" THEN TS_Frame(d) ELSE BT_Frame(d)
\* The pattern label of a row: Pattern, Trigger or Setup.
Label(s, r) ==
  IF s = "quality_scan" THEN r.Pattern
  ELSE IF s = "trigger_scan" THEN r.Trigger ELSE r.Setup
Derived(s, r) == <<r.RSI14, r.H3, r.L3, Label(s, r)>>

\* The run computed its frame: one row per row of the table.
Computed == pc = "done" /\ exit = "ok" /\ Len(df) > 0 /\ Len(loc.frame) = Len(df)
PosOf(d, t, D) == CHOOSE j \in 1..Len(d) : d[j].Ticker = t /\ d[j].Date = D
Truncated(d, D) == SelectSeq(d, LAMBDA r : r.Date <= D)
\* The rows written as setups.
Emitted == UNION {DOMAIN f.rows : f \in {f \in out : f.path \in {QS_OUT, BT_OUT_TRADES}}}
Required == {"Date", "Ticker", "Group", "Open", "High", "Low", "Close"}

\* C1: no lookahead.  For every ticker and date D, RSI14, H3, L3 and the
\* label of the row at D are the same on the full table as on the table
\* truncated to the bars with date <= D, in each of the three scripts.
C1_NoLookahead ==
  Computed =>
    \A D \in {df[i].Date : i \in DOMAIN df} :
      LET td == Truncated(df, D)
          F == FrameOf(script, td)
      IN \A j \in 1..Len(td) :
           td[j].Date = D =>
             Derived(script, F[j]) =
               Derived(script, loc.frame[PosOf(df, td[j].Ticker, D)])
\* A backtest run with a setup on a bar that has H3 and L3 and is followed by
\* a later bar of its ticker whose High and Low differ from them.
C1_Witness ==
  /\ Computed /\ script = "backtest_quality"
  /\ \E i \in DOMAIN df : \E k \in DOMAIN df :
       /\ loc.frame[i].Setup # "" /\ notna(loc.frame[i].H3) /\ notna(loc.frame[i].L3)
       /\ df[k].Ticker = df[i].Ticker /\ df[k].Date > df[i].Date
       /\ df[k].Low # loc.frame[i].L3

\* C4: every emitted setup (row of quality_today.csv, row of
\* quality_trades.csv) has Stop = L3 (long) or H3 (short) of its bar, a risk
\* |Close - Stop| > 0 on the right side of Close, its Target 1.25 risks away
\* and R_R >= 1.25; a bar whose stop is at or on the wrong side of Close is
\* not emitted.
C4_EmittedRiskPositive ==
  Computed =>
    /\ \A o \in Emitted :
         /\ o.Side \in {"long", "short"}
         /\ notna(o.Stop) /\ notna(o.R_R) /\ o.R_R >= RR_MULT
         /\ o.Side = "long" =>
              /\ o.Stop = o.L3 /\ o.Close - o.Stop > 0
              /\ o.Target = CENTS * o.Close + RR_MULT * (o.Close - o.Stop)
         /\ o.Side = "short" =>
              /\ o.Stop = o.H3 /\ o.Stop - o.Close > 0
              /\ o.Target = CENTS * o.Close - RR_MULT * (o.Stop - o.Close)
         /\ \E i \in DOMAIN df :
              /\ df[i].Ticker = o.Ticker /\ df[i].Date = o.Date
              /\ df[i].Close = o.Close
              /\ loc.frame[i].H3 = o.H3 /\ loc.frame[i].L3 = o.L3
    /\ \A i \in DOMAIN df : \A o \in Emitted :
         (o.Ticker = df[i].Ticker /\ o.Date = df[i].Date) =>
           /\ o.Side = "long" => ~Le(df[i].Close, loc.frame[i].L3)
           /\ o.Side = "short" => ~Ge(df[i].Close, loc.frame[i].H3)
\* A backtest run that writes a trade.
C4_Witness ==
  /\ Computed /\ script = "backtest_quality"
  /\ \E o \in Emitted : o.Setup = "ReversalLong" /\ o.Close - o.Stop > 0
\* A backtest run with a setup whose stop is at Close, and no trade for it.
RejectedSetupReached ==
  /\ Computed /\ script = "backtest_quality"
  /\ \E i \in DOMAIN df :
       /\ loc.frame[i].Setup # "" /\ Le(loc.frame[i].Risk, 0)
       /\ ~\E o \in Emitted : o.Ticker = df[i].Ticker /\ o.Date = df[i].Date
\* A quality_scan run that writes a long and one that writes a short setup.
QualityLongReached ==
  Computed /\ script = "quality_scan" /\ \E o \in Emitted : o.Side = "long"
QualityShortReached ==
  Computed /\ script = "quality_scan" /\ \E o \in Emitted : o.Side = "short"

\* C7: when the table has no rows, or no setup on the evaluation date,
\* quality_scan ends normally and writes quality_today.csv with no data rows
\* and the full header of output columns.
C7_EmptyOutputHasHeader ==
  ( /\ pc = "done" /\ script = "quality_scan"
    /\ src_exists /\ columns = AllCols
    /\ (Len(df) = 0 \/ DOMAIN loc.today = {}) )
  => /\ exit = "ok"
     /\ out = {[path |-> QS_OUT, header |-> QS_cols, rows |-> EmptyBag]}

\* C8: when the table lacks a required column the run fails and writes no
\* output file.
C8_MissingColumnFails ==
  (pc = "done" /\ src_exists /\ \E c \in Required : ~Has(columns, c))
  => (exit = "error" /\ out = {})

\* C9: per-ticker independence.  For every ticker T, RSI14, H3, L3 and the
\* label of each of T's rows are those computed on the table of T's bars
\* alone, in each of the three scripts.
C9_PerTickerIndependence ==
  Computed =>
    \A t \in {df[i].Ticker : i \in DOMAIN df} :
      LET F == FrameOf(script, RowsOf(df, t))
      IN \A i \in DOMAIN df :
           df[i].Ticker = t =>
             Derived(script, loc.frame[i]) =
               Derived(script, F[i - GroupFirst(df, i) + 1])
\* A backtest run in which the first bar of B is flagged as engulfing the
\* last bar of A.
C9_Witness ==
  /\ Computed /\ script = "backtest_quality"
  /\ \E i \in DOMAIN df :
       /\ i > 1 /\ df[i].Ticker # df[i - 1].Ticker
       /\ (loc.frame[i].BullEngulf \/ loc.frame[i].BearEngulf)
\* A quality_scan run in which the H3 window of B's first bar lies on A's bars.
WindowAcrossTickersReached ==
  /\ Computed /\ script = "quality_scan"
  /\ \E i \in DOMAIN df :
       i > WIN3 /\ df[i].Ticker # df[i - 1].Ticker /\ ~notna(loc.frame[i].H3)
\* A trigger_scan run in which the previous RSI of B's first bar is A's.
PrevRsiAcrossTickersReached ==
  /\ Computed /\ script = "trigger_scan"
  /\ \E i \in DOMAIN df :
       /\ i > 1 /\ df[i].Ticker # df[i - 1].Ticker
       /\ RsiLe(loc.frame[i - 1].RSI14, RSI_LOW) /\ df[i].Group = "oversold"

\* H3 and L3 of row i as stated: null with fewer than 3 prior bars of the
\* ticker, else the extrema of the 3 bars before it.
H3L3AsStated(i) ==
  LET k == i - GroupFirst(df, i)
  IN IF k < WIN3
     THEN ~notna(loc.frame[i].H3) /\ ~notna(loc.frame[i].L3)
     ELSE /\ loc.frame[i].H3 = SetMax({df[j].High : j \in (i - WIN3)..(i - 1)})
          /\ loc.frame[i].L3 = SetMin({df[j].Low : j \in (i - WIN3)..(i - 1)})

\* C10: in trigger_scan, quality_scan and backtest_quality, H3 and L3 of a
\* row are null until its ticker has 3 prior bars, and then are the maximum
\* High and minimum Low of exactly the 3 bars before it.
C10_H3L3OfThreePriorBars ==
  Computed => \A i \in DOMAIN df : H3L3AsStated(i)
\* The same for trigger_scan and quality_scan only.
H3L3InScans ==
  (Computed /\ script # "backtest_quality") => \A i \in DOMAIN df : H3L3AsStated(i)

\* The labels of a frame row that rest on RSI14.
HasRsiLabel(s, r) ==
  IF s = "quality_scan" THEN r.Pattern # ""
  ELSE IF s = "trigger_scan"
  THEN \E k \in DOMAIN r.Trigger : r.Trigger[k] \in {"LONG_RSI_CROSS", "SHORT_RSI_CROSS"}
  ELSE r.Setup # ""

\* C11: RSI14 is null on the first 14 bars of every ticker, and no pattern
\* resting on RSI (reversal, RSI cross, continuation) fires on them.
C11_RsiNullOnFirstBars ==
  Computed =>
    \A i \in DOMAIN df :
      (i - GroupFirst(df, i) < ALPHA_INV) =>
        (loc.frame[i].RSI14 = <<>> /\ ~HasRsiLabel(script, loc.frame[i]))

LongLabels ==
  {"OversoldLongRev", "ReversalLong", "ContLong",
   "LONG_RSI_CROSS", "LONG_3DAY_BREAKOUT", "LONG_ENGULF"}
ShortLabels ==
  {"OverboughtShortRev", "ReversalShort", "ContShort",
   "SHORT_RSI_CROSS", "SHORT_3DAY_BREAKDOWN", "SHORT_ENGULF"}
\* The labels of a row of an output file.
LabelsOf(path, o) ==
  IF path = QS_OUT THEN {o.Pattern}
  ELSE IF path = TS_OUT THEN {o.Trigger[k] : k \in DOMAIN o.Trigger}
  ELSE {o.Setup}
SetupFiles == {f \in out : f.path \in {QS_OUT, TS_OUT, BT_OUT_TRADES}}

\* C12: every emitted row (quality_today.csv, signals.csv,
\* quality_trades.csv) has Side = long when its labels are of the long
\* family and Side = short when they are of the short family, and no other
\* Side: never 'both', never null.
C12_SideFollowsLabel ==
  (pc = "done" /\ exit = "ok") =>
    \A f \in SetupFiles : \A o \in DOMAIN f.rows :
      LET L == LabelsOf(f.path, o)
      IN /\ L # {}
         /\ o.Side \in {"long", "short"}
         /\ o.Side = "long" <=> L \subseteq LongLabels
         /\ o.Side = "short" <=> L \subseteq ShortLabels
\* A trigger_scan run that writes a signal of two labels.
C12_Witness ==
  /\ pc = "done" /\ exit = "ok" /\ script = "trigger_scan"
  /\ \E f \in SetupFiles : \E o \in DOMAIN f.rows : Len(o.Trigger) >= 2
\* Runs that write a long signal, a short signal and a short trade.
LongSignalReached ==
  /\ pc = "done" /\ exit = "ok" /\ script = "trigger_scan"
  /\ \E f \in SetupFiles : \E o \in DOMAIN f.rows : o.Side = "long"
ShortTradeReached ==
  /\ pc = "done" /\ exit = "ok" /\ script = "backtest_quality"
  /\ \E f \in SetupFiles : \E o \in DOMAIN f.rows : o.Side = "short"
ShortSignalReached ==
  /\ pc = "done" /\ exit = "ok" /\ script = "trigger_scan"
  /\ \E f \in SetupFiles : \E o \in DOMAIN f.rows : o.Side = "short"

\* C14: in backtest_quality FwdHigh_10 and FwdLow_10 of the bar at position
\* t of a ticker are the maximum High and the minimum Low of the bars at
\* positions t+1 .. t+10 of that ticker (null when there is none).
C14_ForwardWindow ==
  (Computed /\ script = "backtest_quality") =>
    \A i \in DOMAIN df :
      LET after == {j \in (i + 1)..(i + SWING_WIN) : j <= GroupLast(df, i)}
      IN /\ loc.frame[i].FwdHigh_10 =
              (IF after = {} THEN NaN ELSE SetMax({df[j].High : j \in after}))
         /\ loc.frame[i].FwdLow_10 =
              (IF after = {} THEN NaN ELSE SetMin({df[j].Low : j \in after}))

(***************************************************************************)
(* scripts/fetch_data.py: the watchlist is split into buckets, each bucket *)
(* is downloaded in chunks with retries and written to its own file, and   *)
(* the buckets' rows are concatenated into data/combined.csv.  Only the    *)
(* key columns Date, Ticker and Group of a row are kept here.              *)
(***************************************************************************)
MaxEntries == 2      \* rows of the watchlist

FD_MAX_RETRIES == 3
FD_CHUNK == 25

\* The List values of a watchlist row (after strip and lower); "watch" is an
\* unknown category.
Lists == {"oversold", "overbought", "breakout", "pullback", "watch"}
Watchlists ==
  {wl \in SUBSET {[Ticker |-> t, List |-> l] : t \in Tickers, l \in Lists} :
     Cardinality(wl) <= MaxEntries}

\* GROUP_MAP.get(List): "" for None.
GROUP_MAP(l) ==
  IF l = "oversold" THEN "oversold"
  ELSE IF l = "overbought" THEN "overbought"
  ELSE IF l \in {"breakouts", "breakout", "pullbacks", "pullback"} THEN "breakouts"
  ELSE ""

\* sorted(v) for a set of tickers.
RECURSIVE SortedTickers(_)
SortedTickers(S) ==
  IF S = {} THEN <<>>
  ELSE LET t == IF "A" \in S THEN "A" ELSE CHOOSE u \in S : TRUE
       IN <<t>> \o SortedTickers(S \ {t})

\* The keys of the dict buckets returns, in insertion order.
BucketNames == <<"oversold", "overbought", "breakouts">>
buckets(wl) ==
  [k \in {BucketNames[n] : n \in DOMAIN BucketNames} |->
     SortedTickers({e.Ticker : e \in {e \in wl : GROUP_MAP(e.List) = k}})]

\* What yf.download returns: for each symbol asked for, the dates of its
\* rows; an empty frame has no date for any symbol.
RawOf(syms, dates) == [sym \in {syms[k] : k \in DOMAIN syms} |-> dates]
\* The outcome of an attempt of dl: it raised, or it returned a frame, empty
\* or with one of two date columns.
Downloads(syms) ==
  {[kind |-> "raise", raw |-> RawOf(syms, <<>>)]}
  \cup {[kind |-> "ok", raw |-> RawOf(syms, d)] : d \in {<<>>, <<1, 2>>, <<2, 2>>}}

BagSum(A, B) ==
  [r \in DOMAIN A \cup DOMAIN B |->
     (IF r \in DOMAIN A THEN A[r] ELSE 0) + (IF r \in DOMAIN B THEN B[r] ELSE 0)]

\* to_long(df, syms, group): the rows of the symbols present, one per
\* (Ticker, Date) after drop_duplicates.  df is None or empty: no rows.
\* Close and Volume are not kept, so the filter of lines 98-99 keeps all.
to_long(raw, syms, group) ==
  LET have == {sym \in {syms[k] : k \in DOMAIN syms} :
                 sym \in DOMAIN raw /\ Len(raw[sym]) > 0}
  IN [r \in UNION {{[Date |-> raw[sym][j], Ticker |-> sym, Group |-> group] :
                      j \in DOMAIN raw[sym]} : sym \in have} |-> 1]

\* dl, lines 62-65: what follows a failed attempt number a.
dl_gives_up_never(a) == "sleep"
dl_after_failure(a) == IF a = FD_MAX_RETRIES THEN "raise" ELSE "sleep"

FD_path(name) ==
  IF name = "oversold" THEN "data/oversold.csv"
  ELSE IF name = "overbought" THEN "data/overbought.csv"
  ELSE IF name = "breakouts" THEN "data/breakouts.csv"
  ELSE "data/combined.csv"

\* main, line 110: the next bucket after position n that has tickers (a
\* bucket without tickers is skipped by fetch_and_save, line 90); 0 for none.
NextBucket(b, n) ==
  LET rest == {k \in (n + 1)..Len(BucketNames) : Len(b[BucketNames[k]]) > 0}
  IN IF rest = {} THEN 0 ELSE SetMin(rest)

RECURSIVE ConcatFrames(_)
ConcatFrames(fs) ==
  IF Len(fs) = 0 THEN EmptyBag ELSE BagSum(fs[1], ConcatFrames(Tail(fs)))

\* The locals of a run of main: the watchlist read, the buckets, the
\* position n of the bucket being fetched, the start i of its chunk, the
\* number a of the attempt dl is making and the outcomes of its earlier
\* attempts, the parts of the bucket so far, the buckets' frames, and every
\* finished call of a download function.
FD_locals(wl) ==
  [watchlist |-> wl, b |-> buckets(wl), n |-> 0, i |-> 0, a |-> 1, tried |-> <<>>,
   parts |-> EmptyBag, frames |-> <<>>, calls |-> <<>>]

Call(fn, tried, result, value) ==
  [fn |-> fn, tried |-> tried, result |-> result, value |-> value]

\* fetch_and_save from line 96 on, with the chunk's download in hand, and
\* main up to the next download or, every bucket fetched, to its end
\* (lines 112-117): the state [pc, exit, out, loc] reached.
FD_resume(l, files, raw, call) ==
  LET name   == BucketNames[l.n]
      tks    == l.b[name]
      chunk  == SubSeq(tks, l.i + 1, SetMin({l.i + FD_CHUNK, Len(tks)}))
      parts  == BagSum(l.parts, to_long(raw, chunk, name))
      calls  == Append(l.calls, call)
      saved  == files \cup {[path |-> FD_path(name), header |-> AllCols, rows |-> parts]}
      frames == Append(l.frames, parts)
      nxt    == NextBucket(l.b, l.n)
      kept   == SelectSeq(frames, LAMBDA f : DOMAIN f # {})
      all    == IF Len(kept) > 0
                THEN saved \cup {[path |-> FD_path("combined"), header |-> AllCols,
                                  rows |-> ConcatFrames(kept)]}
                ELSE saved
  IN IF l.i + FD_CHUNK < Len(tks)
     THEN [pc |-> "dl", exit |-> "", out |-> files,
           loc |-> [l EXCEPT !.i = l.i + FD_CHUNK, !.a = 1, !.tried = <<>>,
                             !.parts = parts, !.calls = calls]]
     ELSE IF nxt # 0
     THEN [pc |-> "dl", exit |-> "", out |-> saved,
           loc |-> [l EXCEPT !.n = nxt, !.i = 0, !.a = 1, !.tried = <<>>,
                             !.parts = EmptyBag, !.frames = frames, !.calls = calls]]
     ELSE [pc |-> "done", exit |-> "ok", out |-> all,
           loc |-> [l EXCEPT !.parts = EmptyBag, !.frames = frames, !.calls = calls]]

\* One pass of the loop of dl (lines 50-65) for the symbols syms, and what
\* main does next; got is the outcome of the attempt.  A loop that ends
\* without a return makes dl return None, which to_long takes as no rows.
dl(l, files, syms, got) ==
  LET tried == Append(l.tried, got)
  IN IF got.kind = "ok"
     THEN FD_resume(l, files, got.raw, Call("dl", tried, "returned", got))
     ELSE IF dl_after_failure(l.a) = "raise"
     THEN [pc |-> "done", exit |-> "error", out |-> files,
           loc |-> [l EXCEPT !.tried = <<>>,
                             !.calls = Append(l.calls, Call("dl", tried, "raised", got))]]
     ELSE IF l.a + 1 <= FD_MAX_RETRIES
     THEN [pc |-> "dl", exit |-> "", out |-> files,
           loc |-> [l EXCEPT !.a = l.a + 1, !.tried = tried]]
     ELSE LET none == [kind |-> "None", raw |-> RawOf(syms, <<>>)]
          IN FD_resume(l, files, none.raw, Call("dl", tried, "returned", none))

InitFeed ==
  /\ src_exists \in BOOLEAN
  /\ columns = AllCols
  /\ df = <<>>
  /\ detected = {}
  /\ nbatch = 0
  /\ pc = "start"
  /\ script = ""
  /\ exit = ""
  /\ out = {}
  /\ \E wl \in Watchlists : loc = FD_locals(wl)

\* fetch_data.main up to its first download (lines 107-111).
FetchData ==
  /\ pc = "start"
  /\ script' = "fetch_data"
  /\ LET nxt == NextBucket(loc.b, 0)
     IN IF nxt = 0
        THEN /\ pc' = "done"
             /\ exit' = "ok"
             /\ loc' = loc
        ELSE /\ pc' = "dl"
             /\ exit' = exit
             /\ loc' = [loc EXCEPT !.n = nxt]
  /\ UNCHANGED <<src_exists, columns, df, detected, nbatch, out>>

\* An attempt of dl and everything main does until the next attempt.
FetchAttempt ==
  /\ pc = "dl"
  /\ script = "fetch_data"
  /\ LET name  == BucketNames[loc.n]
         chunk == SubSeq(loc.b[name], loc.i + 1,
                         SetMin({loc.i + FD_CHUNK, Len(loc.b[name])}))
     IN \E got \in Downloads(chunk) :
          \E res \in {dl(loc, out, chunk, got)} :
            /\ pc' = res.pc
            /\ exit' = res.exit
            /\ out' = res.out
            /\ loc' = res.loc
  /\ UNCHANGED <<src_exists, columns, df, detected, nbatch, script>>

(***************************************************************************)
(* finviz_watchlist_builder.py: the universe is loaded, scanned in batches *)
(* with retries and a per-ticker salvage, and the artifacts are written;   *)
(* main catches every exception.  Of a row of extremes only Ticker and     *)
(* Side are kept.                                                          *)
(***************************************************************************)
FV_MAX_RETRIES == 3
FV_CHUNK == 120

\* What the bars of one symbol lead to in scan_extremes: a long or a short
\* extreme, no row (too few bars, RSI between the thresholds), or an
\* exception, which makes the symbol a miss.
Signals == {"long", "short", "skip", "miss"}

\* The locals of a run of main: the universe, the start i of the batch being
\* scanned, the tries of _download_batch and the outcomes of its attempts,
\* the rows and misses of the scan, every finished call of a download
\* function, the exception caught, what became of the fallback write, and
\* the value returned.
FV_locals ==
  [universe |-> <<>>, i |-> 0, tries |-> 0, tried |-> <<>>,
   rows |-> {}, misses |-> {}, calls |-> <<>>, err |-> "", fallback |-> "", ret |-> NaN]

\* The outcome of an attempt of _download_batch: it raised, or it returned
\* a frame, with MultiIndex columns or without.
FV_Downloads(syms) ==
  {[kind |-> k, multi |-> FALSE, raw |-> RawOf(syms, "skip")] : k \in {"raise", "ok"}}
  \cup {[kind |-> "ok", multi |-> TRUE, raw |-> f] :
          f \in [{syms[k] : k \in DOMAIN syms} -> Signals]}

\* to_csv onto a path: the file replaces what was there.
to_csv(files, f) == {g \in files : g.path # f.path} \cup {f}

\* The seven files of write_outputs (lines 153-165), in the order written.
FV_artifacts(rows, misses) ==
  <<[path |-> "combined_watchlist.csv", header |-> <<"Ticker", "List">>,
     rows |-> {[Ticker |-> r.Ticker,
                List |-> IF r.Side = "long" THEN "oversold" ELSE "overbought"] : r \in rows}],
    [path |-> "docs/combined_watchlist.txt", header |-> <<>>,
     rows |-> {[Ticker |-> r.Ticker] : r \in rows}],
    [path |-> "extremes.csv", rows |-> rows,
     header |-> <<"Ticker", "RSI14", "Side", "Close", "AsOf", "ATR20", "MA50", "MA200">>],
    [path |-> "extremes.txt", header |-> <<>>, rows |-> {[Ticker |-> r.Ticker] : r \in rows}],
    [path |-> "missed_tickers.txt", header |-> <<>>, rows |-> misses],
    [path |-> "pullbacks.csv", header |-> <<"Ticker">>, rows |-> {}],
    [path |-> "breakouts.csv", header |-> <<"Ticker">>, rows |-> {}]>>

\* write_outputs when the write of file number k + 1 raises; k = 7 for a
\* write that completes.
RECURSIVE WriteFirst(_, _, _)
WriteFirst(files, arts, k) ==
  IF k = 0 THEN files ELSE to_csv(WriteFirst(files, arts, k - 1), arts[k])
write_outputs(files, rows, misses, k) ==
  [out |-> WriteFirst(files, FV_artifacts(rows, misses), k),
   raised |-> k < Len(FV_artifacts(rows, misses))]

\* _load_universe (lines 41-68): the sorted symbols of combined_watchlist.csv
\* when it exists and can be read, else the symbols of the index tables,
\* which are also written as the baseline universe; or an exception.
load_universe(files, wl, how, web) ==
  LET syms == IF how = "file" THEN SortedTickers({e.Ticker : e \in wl}) ELSE web
      rows == {[Ticker |-> syms[k]] : k \in DOMAIN syms}
  IN [universe |-> syms,
      out |-> IF how = "file" THEN files
              ELSE to_csv(to_csv(files, [path |-> "combined_watchlist.csv",
                                         header |-> <<"Ticker">>, rows |-> rows]),
                          [path |-> "docs/combined_watchlist.txt",
                           header |-> <<>>, rows |-> rows])]

\* main, the except branch: the fallback write of the empty artifacts with
\* the message as the only miss, its exception swallowed, and return 0.
main_fallback_unguarded(l, files, k) ==
  LET wr == write_outputs(files, {}, {l.err}, k)
  IN [pc |-> "done", exit |-> IF wr.raised THEN "error" ELSE "ok", out |-> wr.out,
      loc |-> [l EXCEPT !.fallback = IF wr.raised THEN "raised" ELSE "written",
                        !.ret = IF wr.raised THEN NaN ELSE 0]]
main_fallback(l, files, k) ==
  LET wr == write_outputs(files, {}, {l.err}, k)
  IN [pc |-> "done", exit |-> "ok", out |-> wr.out,
      loc |-> [l EXCEPT !.fallback = IF wr.raised THEN "raised" ELSE "written",
                        !.ret = 0]]

\* _download_batch, the condition of its while loop.
download_batch_retries(tries) == tries < FV_MAX_RETRIES

\* scan_extremes, lines 92-143, for one batch: the rows and misses its
\* symbols add, by what each symbol's bars lead to.
FV_scan(l, sig) ==
  [l EXCEPT !.rows = l.rows \cup {[Ticker |-> t, Side |-> sig[t]] :
                                    t \in {t \in DOMAIN sig : sig[t] \in {"long", "short"}}},
            !.misses = l.misses \cup {t \in DOMAIN sig : sig[t] = "miss"}]

\* scan_extremes after a batch: the next batch, or the end of the scan and
\* main's write_outputs.
FV_next(l, files) ==
  IF l.i + FV_CHUNK < Len(l.universe)
  THEN [pc |-> "batch", exit |-> "", out |-> files,
        loc |-> [l EXCEPT !.i = l.i + FV_CHUNK, !.tries = 0, !.tried = <<>>]]
  ELSE [pc |-> "write", exit |-> "", out |-> files,
        loc |-> [l EXCEPT !.tries = 0, !.tried = <<>>]]

\* One pass of the loop of _download_batch (line 78) and what scan_extremes
\* does with its result: a frame with MultiIndex columns is scanned, another
\* frame or the RuntimeError after the last retry leads to the salvage.
download_batch(l, files, got) ==
  LET tried == Append(l.tried, got)
  IN IF got.kind = "ok"
     THEN LET m == [l EXCEPT !.calls = Append(l.calls,
                                 Call("_download_batch", tried, "returned", got))]
          IN IF got.multi
             THEN FV_next(FV_scan(m, got.raw), files)
             ELSE [pc |-> "salvage", exit |-> "", out |-> files, loc |-> m]
     ELSE IF download_batch_retries(l.tries + 1)
     THEN [pc |-> "batch", exit |-> "", out |-> files,
           loc |-> [l EXCEPT !.tries = l.tries + 1, !.tried = tried]]
     ELSE [pc |-> "salvage", exit |-> "", out |-> files,
           loc |-> [l EXCEPT !.tries = l.tries + 1, !.tried = <<>>,
                             !.calls = Append(l.calls,
                                 Call("_download_batch", tried, "raised", got))]]

\* main up to the scan: _load_universe.
LoadUniverse ==
  /\ pc = "start"
  /\ script' = "finviz_watchlist_builder"
  /\ exit' = exit
  /\ \E how \in {"file", "web", "raise"} :
       \E web \in {SortedTickers(S) : S \in SUBSET Tickers} :
         LET got == load_universe(out, loc.watchlist, how, web)
         IN /\ how = "file" => (src_exists /\ web = <<>>)
            /\ how = "raise" => web = <<>>
            /\ IF how = "raise"
               THEN /\ pc' = "except"
                    /\ loc' = [FV_locals EXCEPT !.err = "load"]
                    /\ out' = out
               ELSE /\ pc' = IF Len(got.universe) = 0 THEN "write" ELSE "batch"
                    /\ loc' = [FV_locals EXCEPT !.universe = got.universe]
                    /\ out' = got.out
  /\ UNCHANGED <<src_exists, columns, df, detected, nbatch>>

\* An attempt of _download_batch.
BatchAttempt ==
  /\ pc = "batch"
  /\ script = "finviz_watchlist_builder"
  /\ LET syms == SubSeq(loc.universe, loc.i + 1,
                        SetMin({loc.i + FV_CHUNK, Len(loc.universe)}))
     IN \E got \in FV_Downloads(syms) :
          \E res \in {download_batch(loc, out, got)} :
            /\ pc' = res.pc
            /\ exit' = res.exit
            /\ out' = res.out
            /\ loc' = res.loc
  /\ UNCHANGED <<src_exists, columns, df, detected, nbatch, script>>

\* The per-ticker salvage of a batch (lines 118-143).
Salvage ==
  /\ pc = "salvage"
  /\ script = "finviz_watchlist_builder"
  /\ LET syms == SubSeq(loc.universe, loc.i + 1,
                        SetMin({loc.i + FV_CHUNK, Len(loc.universe)}))
     IN \E sig \in [{syms[k] : k \in DOMAIN syms} -> Signals] :
          \E res \in {FV_next(FV_scan(loc, sig), out)} :
            /\ pc' = res.pc
            /\ exit' = res.exit
            /\ out' = res.out
            /\ loc' = res.loc
  /\ UNCHANGED <<src_exists, columns, df, detected, nbatch, script>>

\* An exception of scan_extremes outside its own try blocks.
ScanRaises ==
  /\ pc \in {"batch", "salvage"}
  /\ script = "finviz_watchlist_builder"
  /\ pc' = "except"
  /\ loc' = [loc EXCEPT !.err = "scan"]
  /\ UNCHANGED <<src_exists, columns, df, detected, nbatch, script, exit, out>>

\* main's write_outputs, of the empty frame for an empty universe and of
\* the scan's result otherwise, and return 0.
WriteOutputs ==
  /\ pc = "write"
  /\ script = "finviz_watchlist_builder"
  /\ \E k \in 0..Len(FV_artifacts({}, {})) :
       LET wr == write_outputs(out, loc.rows, loc.misses, k)
       IN /\ out' = wr.out
          /\ IF wr.raised
             THEN /\ pc' = "except"
                  /\ exit' = exit
                  /\ loc' = [loc EXCEPT !.err = "write"]
             ELSE /\ pc' = "done"
                  /\ exit' = "ok"
                  /\ loc' = [loc EXCEPT !.ret = 0]
  /\ UNCHANGED <<src_exists, columns, df, detected, nbatch, script>>

\* main's except branch.
Fallback ==
  /\ pc = "except"
  /\ script = "finviz_watchlist_builder"
  /\ \E k \in 0..Len(FV_artifacts({}, {})) :
       \E res \in {main_fallback(loc, out, k)} :
         /\ pc' = res.pc
         /\ exit' = res.exit
         /\ out' = res.out
         /\ loc' = res.loc
  /\ UNCHANGED <<src_exists, columns, df, detected, nbatch, script>>

NextFeed ==
  \/ FetchData
  \/ FetchAttempt
  \/ LoadUniverse
  \/ BatchAttempt
  \/ Salvage
  \/ ScanRaises
  \/ WriteOutputs
  \/ Fallback
SpecFeed == InitFeed /\ [][NextFeed]_vars /\ WF_vars(NextFeed)

(***************************************************************************)
(* Claims about fetch_data.py and finviz_watchlist_builder.py.             *)
(***************************************************************************)
Combined == {f \in out : f.path = FD_path("combined")}
ListsOf(t) == {e.List : e \in {e \in loc.watchlist : e.Ticker = t}}

\* C15: the combined table written by fetch_data.main has at most one row
\* per (Ticker, Date), also when a ticker is listed under several lists.
C15_OneRowPerTickerDate ==
  \A f \in Combined :
    \A r1 \in DOMAIN f.rows :
      /\ f.rows[r1] = 1
      /\ \A r2 \in DOMAIN f.rows :
           (r1.Ticker = r2.Ticker /\ r1.Date = r2.Date) => r1 = r2

\* A ticker listed as breakout and as pullback is in one bucket only, and
\* its rows are in the combined table once.
BreakoutAndPullbackReached ==
  /\ pc = "done" /\ exit = "ok" /\ script = "fetch_data"
  /\ \E f \in Combined : \E r \in DOMAIN f.rows :
       /\ ListsOf(r.Ticker) = {"breakout", "pullback"}
       /\ \A r2 \in DOMAIN f.rows :
            (r.Ticker = r2.Ticker /\ r.Date = r2.Date) => r = r2

Finviz == script = "finviz_watchlist_builder"
EmptyArtifacts(msg) ==
  {FV_artifacts({}, {msg})[k] : k \in DOMAIN FV_artifacts({}, {msg})}

\* C13: finviz_watchlist_builder.main never fails: whatever exception is
\* raised while loading the universe, scanning or writing the outputs, main
\* returns 0 after attempting the fallback write of the empty artifacts,
\* and an exception of the fallback write is swallowed too.
C13_MainNeverFails ==
  Finviz =>
    /\ exit # "error"
    /\ pc = "done" =>
         /\ exit = "ok"
         /\ loc.ret = 0
         /\ loc.err # "" <=> loc.fallback \in {"written", "raised"}
         /\ loc.fallback = "written" => EmptyArtifacts(loc.err) \subseteq out

\* The write of the scan's result raised and the fallback write raised as
\* well; main has returned.
C13_Witness ==
  /\ Finviz /\ pc = "done" /\ loc.ret = 0
  /\ loc.err = "write" /\ loc.fallback = "raised"
  /\ Len(loc.universe) > 0

LoadFailureReached ==
  Finviz /\ pc = "done" /\ loc.err = "load" /\ loc.fallback = "written"
ScanFailureReached ==
  Finviz /\ pc = "done" /\ loc.err = "scan" /\ loc.fallback = "raised"
CleanRunReached ==
  Finviz /\ pc = "done" /\ loc.err = "" /\ loc.rows # {} /\ loc.misses # {}

MaxAttempts(fn) == IF fn = "dl" THEN FD_MAX_RETRIES ELSE FV_MAX_RETRIES
AllRaised(tried) == \A k \in DOMAIN tried : tried[k].kind = "raise"

\* A finished call made at most MAX_RETRIES attempts; it returned what its
\* first successful attempt returned, every attempt before that one having
\* failed, or it raised after MAX_RETRIES failed attempts.
BoundedCall(c) ==
  LET made == Len(c.tried)
  IN /\ made \in 1..MaxAttempts(c.fn)
     /\ AllRaised(SubSeq(c.tried, 1, made - 1))
     /\ \/ c.result = "returned" /\ c.tried[made].kind = "ok" /\ c.value = c.tried[made]
        \/ c.result = "raised" /\ c.tried[made].kind = "raise" /\ made = MaxAttempts(c.fn)

\* The call in progress has only failed attempts, fewer than MAX_RETRIES.
BoundedRetrying ==
  /\ \A k \in DOMAIN loc.calls : BoundedCall(loc.calls[k])
  /\ pc = "dl" => (Len(loc.tried) < FD_MAX_RETRIES /\ AllRaised(loc.tried))
  /\ pc = "batch" => (Len(loc.tried) < FV_MAX_RETRIES /\ AllRaised(loc.tried))

\* C16: dl and _download_batch make at most MAX_RETRIES attempts, return the
\* result of the first attempt that succeeds without attempting again, and
\* raise after MAX_RETRIES consecutive failures; they never return a
\* missing result and never retry forever, so every run comes to its end.
C16_BoundedRetry == [](script # "" => BoundedRetrying) /\ <>(pc = "done")

\* fetch_data: one call of dl returned at its last attempt, a later one
\* raised after MAX_RETRIES failures and ended main.
C16_Witness ==
  /\ script = "fetch_data" /\ pc = "done" /\ exit = "error"
  /\ \E j, k \in DOMAIN loc.calls :
       /\ loc.calls[j].result = "returned" /\ Len(loc.calls[j].tried) = FD_MAX_RETRIES
       /\ loc.calls[k].result = "raised" /\ Len(loc.calls[k].tried) = FD_MAX_RETRIES

\* finviz: _download_batch raised after MAX_RETRIES failures, and the scan
\* went on to the salvage; another run returned at the second attempt.
BatchGivenUpReached ==
  /\ Finviz /\ pc = "salvage"
  /\ \E k \in DOMAIN loc.calls :
       loc.calls[k].result = "raised" /\ Len(loc.calls[k].tried) = FV_MAX_RETRIES
BatchRetriedReached ==
  /\ Finviz
  /\ \E k \in DOMAIN loc.calls :
       loc.calls[k].result = "returned" /\ Len(loc.calls[k].tried) = 2

====
